---- MODULE Spec2Model ----
(***************************************************************************)
(* A model of jrtti: the Reflector type registry (reflector.hpp), the      *)
(* TypedProperty accessor binding (property.hpp), the Metacollection       *)
(* adapter (collection.hpp) and the JSON writer/reader                     *)
(* (JSONSerializer.hpp).                                                   *)
(*                                                                         *)
(* Text is a sequence of one-character strings.  Descriptor and instance   *)
(* addresses are positive integers; 0 is the null pointer.                 *)
(***************************************************************************)
EXTENDS Integers, Sequences, FiniteSets, TLC

VARIABLES
    meta_types,           \* Reflector::_meta_types : name -> Metatype *
    metaobjs,             \* the live Metatype objects, by address
    m_pendingProperties,  \* Reflector::m_pendingProperties (multimap: by key, then by insertion)
    propMetatype,         \* Property * -> the Metatype * given to setMetatype (0: none)
    m_prefixDecorators,   \* Reflector::m_prefixDecorators
    ret,                  \* what the last call returned or threw
    tprop,                \* a TypedProperty< ClassT, PropT >: _mode, m_setter, m_getter, m_dataMember
    inst,                 \* the ClassT instance the property is used on
    coll,                 \* a collection instance (ClassT of Metacollection< ClassT >)
    str,                  \* the text the last Metacollection::_toStr returned
    encoded,              \* the elements the collection held when str was made
    graph,                \* the object graph the application built, by address; its root is at 1
    m_stream,             \* the text stream the JSONWriter writes and the JSONReader reads
    target,               \* the instances the JSONReader reads into, by address; the root is at 1
    m_addressRefs,        \* Reflector::m_addressRefs: the identity map of a traversal
    writer,               \* a JSONWriter and its stream: m_stream, need_nl, col_need_nl, indentLevel
    reader,               \* a JSONReader on m_stream: the stream position, currentChar, and whether a call has not returned
    given,                \* the std::string handed to writeString
    calls,                \* the calls the traversal has made on the writer, in order
    scopes                \* the objects, properties, collections and elements the traversal is inside of, outermost first

regVars == <<meta_types, metaobjs, m_pendingProperties, propMetatype, m_prefixDecorators>>

propVars == <<tprop, inst>>

collVars == <<coll, str, encoded>>

codecVars == <<graph, m_stream, target, m_addressRefs>>

ioVars == <<writer, reader, given, calls, scopes>>

\* what a call on the registry leaves alone
notRegistry == <<propVars, collVars, codecVars, ioVars>>

\* what a call on a property leaves alone
notProperty == <<regVars, collVars, codecVars, ioVars>>

\* what a call on a collection leaves alone
notCollection == <<regVars, propVars, codecVars, ioVars>>

\* what a call on the writer or the reader leaves alone
notCodec == <<regVars, propVars, collVars, ioVars>>

\* what a call on a writer or a reader of its own leaves alone
notIo == <<regVars, propVars, collVars, codecVars>>

vars == <<regVars, ret, propVars, collVars, codecVars, ioVars>>

(***************************************************************************)
(* Bounds                                                                  *)
(***************************************************************************)
\* most entries held in m_pendingProperties
MaxPending == 2

\* most elements the application inserts into a collection
MaxElems == 2

\* most instances in the object graph the application builds
MaxObjects == 3

(***************************************************************************)
(* The registry: reflector.hpp                                             *)
(***************************************************************************)
\* the user classes the application declares
UserTypes == {"A", "B"}

\* the properties the application may enqueue
Props == {1, 2, 3}

\* Property::typeName(): the name of each property's value type, the key it is
\* enqueued under
PropTypeName(p) == CASE p = 1 -> "A" [] p = 2 -> "A*" [] p = 3 -> "B"

\* typeid( T* ).name()
PtrName(T) == T \o "*"

\* the types register_defaults declares, in its order
DefaultTypes ==
    <<"bool", "char", "short", "int", "long", "float", "double",
      "long double", "wchar_t", "std::string">>

\* names metatype( name ) is called with
LookupNames == {"A", "A*", "int"}

\* the addresses operator new can hand out
Addresses == 1 .. (2 * Len(DefaultTypes) + 4 * Cardinality(UserTypes) + 4)

\* operator new: an address that holds no live object
NewAddr(objs) == CHOOSE a \in Addresses \ DOMAIN objs : \A b \in Addresses \ DOMAIN objs : a <= b

\* f with key k bound to v (std::map::operator[] assignment)
MapPut(f, k, v) == [x \in DOMAIN f \cup {k} |-> IF x = k THEN v ELSE f[x]]

\* the entries of a queue whose key is in `keep`, in order
RECURSIVE SelectEntries(_, _)
SelectEntries(s, keep) ==
    IF s = <<>> THEN <<>>
    ELSE IF Head(s).tname \in keep
         THEN <<Head(s)>> \o SelectEntries(Tail(s), keep)
         ELSE SelectEntries(Tail(s), keep)

\* the names some entry of the queue is keyed by
PendingNames(q) == {q[i].tname : i \in DOMAIN q}

\* a registry value, threaded through the private helpers
Registry ==
    [meta_types |-> meta_types, metaobjs |-> metaobjs,
     pending |-> m_pendingProperties, propMetatype |-> propMetatype,
     decorators |-> m_prefixDecorators]

\* updatePendingProperties without the erase of the range it has bound
updatePendingKeeping(reg, mc) ==
    LET key == reg.metaobjs[mc].name
        hit == {reg.pending[i].prop : i \in {j \in DOMAIN reg.pending : reg.pending[j].tname = key}}
    IN  [reg EXCEPT
            !.propMetatype = [p \in DOMAIN reg.propMetatype |->
                                 IF p \in hit THEN mc ELSE reg.propMetatype[p]]]

\* Reflector::updatePendingProperties( mc ): bind and erase the range keyed by
\* mc->typeInfo().name()
updatePendingProperties(reg, mc) ==
    LET key == reg.metaobjs[mc].name
        hit == {reg.pending[i].prop : i \in {j \in DOMAIN reg.pending : reg.pending[j].tname = key}}
    IN  [reg EXCEPT
            !.propMetatype = [p \in DOMAIN reg.propMetatype |->
                                 IF p \in hit THEN mc ELSE reg.propMetatype[p]],
            !.pending = SelectEntries(reg.pending, PendingNames(reg.pending) \ {key})]

\* internal_declare without mc->pointerMetatype( ptr_mc )
internal_declareUnlinked(reg, T, mc) ==
    LET fresh  == T \notin DOMAIN reg.meta_types
        ptr_mc == IF fresh THEN NewAddr(reg.metaobjs) ELSE reg.meta_types[PtrName(T)]
        objs1  == IF fresh
                  THEN MapPut(reg.metaobjs, ptr_mc,
                              [kind |-> "pointer", name |-> PtrName(T), ptr |-> 0])
                  ELSE reg.metaobjs
        reg1   == [reg EXCEPT
                      !.meta_types = MapPut(MapPut(reg.meta_types, T, mc), PtrName(T), ptr_mc),
                      !.metaobjs = objs1]
    IN  updatePendingProperties(updatePendingProperties(reg1, mc), ptr_mc)

\* Reflector::internal_declare< T >( mc ); mc is already allocated in reg.metaobjs
internal_declare(reg, T, mc) ==
    LET fresh  == T \notin DOMAIN reg.meta_types
        ptr_mc == IF fresh THEN NewAddr(reg.metaobjs) ELSE reg.meta_types[PtrName(T)]
        objs1  == IF fresh
                  THEN MapPut(reg.metaobjs, ptr_mc,
                              [kind |-> "pointer", name |-> PtrName(T), ptr |-> 0])
                  ELSE reg.metaobjs
        objs2  == [objs1 EXCEPT ![mc].ptr = ptr_mc]
        reg1   == [reg EXCEPT
                      !.meta_types = MapPut(MapPut(reg.meta_types, T, mc), PtrName(T), ptr_mc),
                      !.metaobjs = objs2]
    IN  updatePendingProperties(updatePendingProperties(reg1, mc), ptr_mc)

\* new M( ... ) followed by internal_declare< T >: the shape of every declaration
NewAndDeclare(reg, T, kind) ==
    LET mc == NewAddr(reg.metaobjs)
    IN  internal_declare(
            [reg EXCEPT !.metaobjs =
                MapPut(reg.metaobjs, mc, [kind |-> kind, name |-> T, ptr |-> 0])],
            T, mc)

\* Reflector::register_defaults
RECURSIVE RegisterFrom(_, _)
RegisterFrom(reg, i) ==
    IF i > Len(DefaultTypes) THEN reg
    ELSE RegisterFrom(NewAndDeclare(reg, DefaultTypes[i], "primitive"), i + 1)

register_defaults(reg) == RegisterFrom(reg, 1)

\* Reflector::eraseMetatypes: delete every registered Metatype, empty the map
eraseMetatypes(reg) ==
    LET registered == {reg.meta_types[n] : n \in DOMAIN reg.meta_types}
    IN  [reg EXCEPT
            !.metaobjs = [a \in DOMAIN reg.metaobjs \ registered |-> reg.metaobjs[a]],
            !.meta_types = <<>>]

\* Reflector::registerPrefixDecorator
registerPrefixDecorator(reg, decorator) ==
    [reg EXCEPT !.decorators = Append(reg.decorators, decorator)]

\* clear that does not erase the registered metatypes
clearNoErase(reg) ==
    LET r2 == [reg EXCEPT !.decorators = <<>>]
        r3 == registerPrefixDecorator(r2, "struct")
        r4 == registerPrefixDecorator(r3, "class")
    IN  register_defaults(r4)

\* Reflector::clear
clear(reg) ==
    LET r1 == eraseMetatypes(reg)
        r2 == [r1 EXCEPT !.decorators = <<>>]
        r3 == registerPrefixDecorator(r2, "struct")
        r4 == registerPrefixDecorator(r3, "class")
    IN  register_defaults(r4)

\* the registry a Reflector holds before its constructor body runs
EmptyRegistry ==
    [meta_types |-> <<>>, metaobjs |-> <<>>, pending |-> <<>>,
     propMetatype |-> [p \in Props |-> 0], decorators |-> <<>>]

\* does dynamic_cast< M * > of a descriptor of kind `have` succeed, M being the
\* class the declaring operation `op` creates?  Metacollection< C > derives
\* from CustomMetaclass< C >; CustomMetaclass< C, true_type > is a class apart.
CastOk(op, have) ==
    CASE op = "declare"           -> have \in {"class", "collection"}
      [] op = "declareAbstract"   -> have = "abstract"
      [] op = "declareCollection" -> have = "collection"

\* the kind of descriptor each declaring operation creates
KindOf(op) ==
    CASE op = "declare"           -> "class"
      [] op = "declareAbstract"   -> "abstract"
      [] op = "declareCollection" -> "collection"

DeclareOps == {"declare", "declareAbstract", "declareCollection"}

\* the registry is assigned from a registry value
SetRegistry(reg) ==
    /\ meta_types' = reg.meta_types
    /\ metaobjs' = reg.metaobjs
    /\ m_pendingProperties' = reg.pending
    /\ propMetatype' = reg.propMetatype
    /\ m_prefixDecorators' = reg.decorators

\* what a call hands back: the descriptor returned (0: none), the error raised,
\* and whether the name was found in _meta_types
Ret(op, name, desc, err, found) ==
    [op |-> op, name |-> name, desc |-> desc, err |-> err, found |-> found]

\* a declaration that never takes the early return
DeclareAlways(op, C) ==
    LET reg == NewAndDeclare(Registry, C, KindOf(op))
    IN  /\ SetRegistry(reg)
        /\ ret' = Ret(op, C, reg.meta_types[C], "none", C \in DOMAIN meta_types)
        /\ UNCHANGED notRegistry

\* Reflector::declare< C > / declareAbstract< C > / declareCollection< C >
Declare(op, C) ==
    IF C \in DOMAIN meta_types
    THEN /\ UNCHANGED <<regVars, notRegistry>>
         /\ ret' = IF CastOk(op, metaobjs[meta_types[C]].kind)
                   THEN Ret(op, C, meta_types[C], "none", TRUE)
                   ELSE \* *dynamic_cast< M * >( ... ) of a null pointer
                        Ret(op, C, 0, "null-deref", TRUE)
    ELSE LET reg == NewAndDeclare(Registry, C, KindOf(op))
         IN  /\ SetRegistry(reg)
             /\ ret' = Ret(op, C, reg.meta_types[C], "none", FALSE)
             /\ UNCHANGED notRegistry

\* a lookup through std::map::operator[], which creates the missing entry
LookupInserting(name) ==
    /\ meta_types' = IF name \in DOMAIN meta_types THEN meta_types
                     ELSE MapPut(meta_types, name, 0)
    /\ UNCHANGED <<metaobjs, m_pendingProperties, propMetatype, m_prefixDecorators, notRegistry>>
    /\ ret' = IF name \in DOMAIN meta_types
              THEN Ret("metatype", name, meta_types[name], "none", TRUE)
              ELSE Ret("metatype", name, 0, "Error", FALSE)

\* Reflector::metatype( const std::string & )
Lookup(name) ==
    /\ UNCHANGED <<regVars, notRegistry>>
    /\ ret' = IF name \in DOMAIN meta_types
              THEN Ret("metatype", name, meta_types[name], "none", TRUE)
              ELSE Ret("metatype", name, 0, "Error", FALSE)

\* the place of a key in std::less< std::string > order: the keys in use are
\* ordered as their texts are, "A" < "A*" < "B" < "B*"
KeyRank(k) ==
    CASE k = "A" -> 1 [] k = "A*" -> 2 [] k = "B" -> 3 [] k = "B*" -> 4 [] OTHER -> 5

\* std::multimap::insert: after the last entry whose key is not greater
RECURSIVE MultimapInsert(_, _)
MultimapInsert(q, e) ==
    IF q = <<>> THEN <<e>>
    ELSE IF KeyRank(Head(q).tname) <= KeyRank(e.tname)
         THEN <<Head(q)>> \o MultimapInsert(Tail(q), e)
         ELSE <<e>> \o q

\* Reflector::addPendingProperty
AddPendingProperty(tname, prop) ==
    /\ Len(m_pendingProperties) < MaxPending
    /\ m_pendingProperties' = MultimapInsert(m_pendingProperties, [tname |-> tname, prop |-> prop])
    /\ UNCHANGED <<meta_types, metaobjs, propMetatype, m_prefixDecorators, notRegistry>>
    /\ ret' = Ret("addPendingProperty", tname, 0, "none", FALSE)

\* Reflector::clear, called by the application
Clear ==
    /\ SetRegistry(clear(Registry))
    /\ ret' = Ret("clear", "", 0, "none", FALSE)
    /\ UNCHANGED notRegistry

(***************************************************************************)
(* Property and TypedProperty: property.hpp                                *)
(***************************************************************************)
\* enum Property::Mode
Readable == 1

Writable == 2

\* _mode | mode, on the two mode bits
BitOr(a, b) ==
    (IF a % 2 = 1 \/ b % 2 = 1 THEN 1 ELSE 0)
    + (IF (a \div 2) % 2 = 1 \/ (b \div 2) % 2 = 1 THEN 2 ELSE 0)

\* _mode & mode, on the two mode bits
BitAnd(a, b) ==
    (IF a % 2 = 1 /\ b % 2 = 1 THEN 1 ELSE 0)
    + (IF (a \div 2) % 2 = 1 /\ (b \div 2) % 2 = 1 THEN 2 ELSE 0)

\* Property::setMode
setMode(p, mode) == [p EXCEPT !.mode = BitOr(p.mode, mode)]

\* isReadable with | in the place of &
isReadableOr(p) == BitOr(p.mode, Readable) # 0

\* Property::isReadable
isReadable(p) == BitAnd(p.mode, Readable) # 0

\* Property::isWritable
isWritable(p) == BitAnd(p.mode, Writable) # 0

\* Property::isReadWrite
isReadWrite(p) == isReadable(p) /\ isWritable(p)

\* Property::isReadOnly
isReadOnly(p) == isReadable(p) /\ ~isWritable(p)

\* a boost::any: the type of the value it holds and the value
AnyOf(type, v) == [type |-> type, v |-> v]

\* boost::any()
EmptyAny == AnyOf("void", 0)

\* the values the int field takes
FieldValues == {0, 1}

\* the boost::any values set() is called with: PropT is int
SetValues == {AnyOf("int", v) : v \in FieldValues} \cup {AnyOf("std::string", 1), EmptyAny}

\* boost::function arguments: an empty functor, or one bound to the accessor
\* method of ClassT that reads or writes the field
Functors == {"empty", "functor"}

\* TypedProperty::TypedProperty: Property() sets _mode to 0, the functors start
\* empty, m_dataMember is not initialised
NewProperty ==
    [mode |-> 0, m_setter |-> "empty", m_getter |-> "empty",
     m_dataMember |-> "indeterminate", bound |-> {}]

\* what a property call hands back
PRet(op, arg, val, err) == [op |-> op, arg |-> arg, val |-> val, err |-> err]

\* TypedProperty::setter( boost::function< void ( ClassT*, PropT ) > )
SetterFunctor(f) ==
    /\ tprop' = [(IF f # "empty" THEN setMode(tprop, Writable) ELSE tprop) EXCEPT
                   !.m_dataMember = "NULL",
                   !.m_setter = f,
                   !.bound = IF f # "empty" THEN tprop.bound \cup {"setter"} ELSE tprop.bound]
    /\ ret' = PRet("setter", EmptyAny, EmptyAny, "none")
    /\ UNCHANGED <<inst, notProperty>>

\* TypedProperty::setter( PropNoRefT ClassT::* )
SetterMember ==
    /\ tprop' = [setMode(setMode(tprop, Writable), Readable) EXCEPT
                   !.m_dataMember = "member",
                   !.m_setter = "empty",
                   !.bound = tprop.bound \cup {"member"}]
    /\ ret' = PRet("setterMember", EmptyAny, EmptyAny, "none")
    /\ UNCHANGED <<inst, notProperty>>

\* TypedProperty::getter
GetterFunctor(f) ==
    /\ tprop' = [(IF f # "empty" THEN setMode(tprop, Readable) ELSE tprop) EXCEPT
                   !.m_getter = f,
                   !.bound = IF f # "empty" THEN tprop.bound \cup {"getter"} ELSE tprop.bound]
    /\ ret' = PRet("getter", EmptyAny, EmptyAny, "none")
    /\ UNCHANGED <<inst, notProperty>>

\* TypedProperty::internal_get: the value m_getter returns, or the
\* boost::bad_function_call an empty boost::function throws
internal_get(p, i) ==
    IF p.m_getter = "empty"
    THEN [val |-> EmptyAny, err |-> "bad_function_call"]
    ELSE [val |-> AnyOf("int", i.field), err |-> "none"]

\* TypedProperty::get
PropGet ==
    LET r == internal_get(tprop, inst)
    IN  /\ ret' = PRet("get", EmptyAny, r.val, r.err)
        /\ UNCHANGED <<tprop, inst, notProperty>>

\* TypedProperty::internal_set: the instances it may leave, each with the error
\* raised.  An uninitialised m_dataMember tests either way.
internal_set(p, i, v) ==
    LET viaMember == [inst |-> [i EXCEPT !.field = v], err |-> "none"]
        viaSetter == IF p.m_setter = "empty"
                     THEN [inst |-> i, err |-> "bad_function_call"]
                     ELSE [inst |-> [i EXCEPT !.field = v], err |-> "none"]
    IN  CASE p.m_dataMember = "member" -> {viaMember}
          [] p.m_dataMember = "NULL"   -> {viaSetter}
          [] OTHER                     -> {viaMember, viaSetter}

\* set() storing the value whatever its dynamic type
SetUnchecked(p, i, val) ==
    IF isWritable(p) THEN internal_set(p, i, val.v) ELSE {[inst |-> i, err |-> "none"]}

\* set() without the isWritable() test
SetUnguarded(p, i, val) ==
    IF val.type # "int"
    THEN {[inst |-> i, err |-> "bad_any_cast"]}
    ELSE internal_set(p, i, val.v)

\* TypedProperty::set: the instances it may leave, each with the error raised
set(p, i, val) ==
    IF isWritable(p)
    THEN IF val.type # "int"
         THEN {[inst |-> i, err |-> "bad_any_cast"]}
         ELSE internal_set(p, i, val.v)
    ELSE {[inst |-> i, err |-> "none"]}

\* a call of TypedProperty::set( instance, val )
PropSet(val) ==
    \E r \in set(tprop, inst, val) :
        /\ inst' = r.inst
        /\ ret' = PRet("set", val, EmptyAny, r.err)
        /\ UNCHANGED <<tprop, notProperty>>

\* JSONReader::readProperty on a property named in the stream, once its name
\* is read: prop.get( instance ) is handed to the read of the property's
\* metatype, which returns the value mod taken from the stream; mod is set when
\* the property is writable.  `called` holds the accessors that were called.
ReadProperty(mod) ==
    LET g == internal_get(tprop, inst)
    IN  /\ IF g.err # "none"
           THEN /\ inst' = inst
                /\ ret' = [op |-> "readProperty", arg |-> mod, val |-> g.val, err |-> g.err,
                           called |-> {"get"}]
           ELSE IF isWritable(tprop)
                THEN \E r \in set(tprop, inst, mod) :
                         /\ inst' = r.inst
                         /\ ret' = [op |-> "readProperty", arg |-> mod, val |-> g.val,
                                    err |-> r.err, called |-> {"get", "set"}]
                ELSE /\ inst' = inst
                     /\ ret' = [op |-> "readProperty", arg |-> mod, val |-> g.val,
                                err |-> "none", called |-> {"get"}]
        /\ UNCHANGED <<tprop, notProperty>>

(***************************************************************************)
(* Text helpers: numbers as decimal text                                   *)
(***************************************************************************)
Digits == <<"0", "1", "2", "3", "4", "5", "6", "7", "8", "9">>

IsDigit(c) == \E d \in 1 .. 10 : Digits[d] = c

DigitVal(c) == (CHOOSE d \in 1 .. 10 : Digits[d] = c) - 1

RECURSIVE NatToStr(_)
NatToStr(n) ==
    IF n < 10 THEN <<Digits[n + 1]>>
    ELSE NatToStr(n \div 10) \o <<Digits[(n % 10) + 1]>>

\* numToStr< int >: the decimal text of a number
numToStr(n) == IF n < 0 THEN <<"-">> \o NatToStr(-n) ELSE NatToStr(n)

\* the value of the leading digits of s, continuing from acc
RECURSIVE DigitsToNat(_, _)
DigitsToNat(s, acc) ==
    IF s = <<>> \/ ~IsDigit(Head(s)) THEN acc
    ELSE DigitsToNat(Tail(s), 10 * acc + DigitVal(Head(s)))

\* strToNum< int >: an optional sign and the digits after it
strToNum(s) ==
    IF s # <<>> /\ Head(s) = "-" THEN -DigitsToNat(Tail(s), 0)
    ELSE DigitsToNat(s, 0)

\* isspace
IsSpace(c) == c \in {" ", "\t", "\n", "\r", "\f", "VT"}

\* boost::trim
RECURSIVE TrimLeft(_)
TrimLeft(s) == IF s # <<>> /\ IsSpace(Head(s)) THEN TrimLeft(Tail(s)) ELSE s

RECURSIVE TrimRight(_)
TrimRight(s) ==
    IF s # <<>> /\ IsSpace(s[Len(s)]) THEN TrimRight(SubSeq(s, 1, Len(s) - 1)) ELSE s

Trim(s) == TrimRight(TrimLeft(s))

(***************************************************************************)
(* Metacollection: collection.hpp                                          *)
(***************************************************************************)
\* the values of the int elements
ElemValues == {-3, 12}

\* ident: a text with every line of it moved one tab to the right
RECURSIVE IdentFrom(_)
IdentFrom(s) ==
    IF s = <<>> THEN <<>>
    ELSE IF Head(s) = "\n" THEN <<"\n", "\t">> \o IdentFrom(Tail(s))
         ELSE <<Head(s)>> \o IdentFrom(Tail(s))

ident(s) == <<"\t">> \o IdentFrom(s)

\* the loop of Metacollection::_toStr over the elements from the i'th on
RECURSIVE ToStrFrom(_, _, _)
ToStrFrom(c, i, need_nl) ==
    IF i > Len(c) THEN <<>>
    ELSE (IF need_nl THEN <<",", "\n">> ELSE <<>>)
         \o ident(numToStr(c[i]))
         \o ToStrFrom(c, i + 1, TRUE)

\* Metacollection::_toStr
toStr(c) == <<"[", "\n">> \o ToStrFrom(c, 1, FALSE) \o <<"\n", "]">>

\* JSONParser over the text of a collection: the texts of its elements, in
\* the order they arrive; s is the text after the opening bracket
RECURSIVE ParseElements(_, _)
ParseElements(s, cur) ==
    IF s = <<>> \/ Head(s) = "]"
    THEN IF Trim(cur) = <<>> THEN <<>> ELSE <<Trim(cur)>>
    ELSE IF Head(s) = ","
         THEN (IF Trim(cur) = <<>> THEN <<>> ELSE <<Trim(cur)>>)
              \o ParseElements(Tail(s), <<>>)
         ELSE ParseElements(Tail(s), Append(cur, Head(s)))

RECURSIVE SkipToBracket(_)
SkipToBracket(s) ==
    IF s = <<>> THEN <<>>
    ELSE IF Head(s) = "[" THEN Tail(s) ELSE SkipToBracket(Tail(s))

JSONParser(s) == ParseElements(SkipToBracket(s), <<>>)

\* _fromStr with every element inserted at begin()
RECURSIVE fromStrAtBegin(_, _)
fromStrAtBegin(c, elems) ==
    IF elems = <<>> THEN c
    ELSE fromStrAtBegin(<<strToNum(Head(elems))>> \o c, Tail(elems))

\* the loop of Metacollection::_fromStr: each parsed element is converted and
\* inserted at end()
RECURSIVE fromStrLoop(_, _)
fromStrLoop(c, elems) ==
    IF elems = <<>> THEN c
    ELSE fromStrLoop(Append(c, strToNum(Head(elems))), Tail(elems))

\* Metacollection::_fromStr: the collection it leaves
fromStr(c, s) == fromStrLoop(c, JSONParser(s))

\* what a collection call hands back
CRet(op) == [op |-> op]

\* ClassT::insert( end(), x ), called by the application
CollInsert(x) ==
    /\ Len(coll) < MaxElems
    /\ coll' = Append(coll, x)
    /\ ret' = CRet("insert")
    /\ UNCHANGED <<str, encoded, notCollection>>

\* ClassT::clear, called by the application
CollClear ==
    /\ coll' = <<>>
    /\ ret' = CRet("clear")
    /\ UNCHANGED <<str, encoded, notCollection>>

\* a call of Metacollection::_toStr on the collection
CollToStr ==
    /\ Len(coll) <= MaxElems
    /\ str' = toStr(coll)
    /\ encoded' = coll
    /\ ret' = CRet("_toStr")
    /\ UNCHANGED <<coll, notCollection>>

\* a call of Metacollection::_fromStr on the collection, with the text of the
\* last _toStr
CollFromStr ==
    /\ str # <<>>
    /\ Len(coll) <= MaxElems
    /\ coll' = fromStr(coll, str)
    /\ ret' = CRet("_fromStr")
    /\ UNCHANGED <<str, encoded, notCollection>>

(***************************************************************************)
(* The classes the application declares and the graphs it builds           *)
(***************************************************************************)
NULL == 0

\* the values of the number properties
NumValues == {-1, 0, 12}

\* Point and Sample of the test fixture; Pair is an application class with two
\* Point * properties, both NULL after construction
Classes == {"Point", "Sample", "Pair"}

\* Metatype::properties: the reflected properties of a class, in order
properties(cls) ==
    CASE cls = "Point" -> <<[name |-> "x", kind |-> "number", type |-> "double"]>>
      [] cls = "Sample" -> <<[name |-> "intMember", kind |-> "number", type |-> "int"],
                             [name |-> "circularRef", kind |-> "pointer", type |-> "Sample"]>>
      [] cls = "Pair" -> <<[name |-> "first", kind |-> "pointer", type |-> "Point"],
                           [name |-> "second", kind |-> "pointer", type |-> "Point"]>>
      [] OTHER -> <<>>

\* a name as text
Chars(name) ==
    CASE name = "Point" -> <<"P", "o", "i", "n", "t">>
      [] name = "Sample" -> <<"S", "a", "m", "p", "l", "e">>
      [] name = "Pair" -> <<"P", "a", "i", "r">>
      [] name = "x" -> <<"x">>
      [] name = "intMember" -> <<"i", "n", "t", "M", "e", "m", "b", "e", "r">>
      [] name = "circularRef" -> <<"c", "i", "r", "c", "u", "l", "a", "r", "R", "e", "f">>
      [] name = "first" -> <<"f", "i", "r", "s", "t">>
      [] name = "second" -> <<"s", "e", "c", "o", "n", "d">>
      [] name = "$id" -> <<"$", "i", "d">>
      [] name = "$ref" -> <<"$", "r", "e", "f">>
      [] name = "TypeName" -> <<"T", "y", "p", "e", "N", "a", "m", "e">>
      [] name = "count" -> <<"c", "o", "u", "n", "t">>
      [] name = "struct" -> <<"s", "t", "r", "u", "c", "t">>
      [] name = "class" -> <<"c", "l", "a", "s", "s">>
      [] name = "enum" -> <<"e", "n", "u", "m">>

\* new ClassT() at address this: Point() sets x to -1, Sample() sets
\* circularRef to this and leaves intMember as it finds it (junk), Pair() sets
\* both pointers to NULL
create(cls, this, junk) ==
    CASE cls = "Point" -> [cls |-> cls, val |-> [n \in {"x"} |-> -1]]
      [] cls = "Sample" -> [cls |-> cls,
                            val |-> [n \in {"intMember", "circularRef"} |->
                                       IF n = "intMember" THEN junk ELSE this]]
      [] cls = "Pair" -> [cls |-> cls, val |-> [n \in {"first", "second"} |-> NULL]]

\* operator new: the address of the next instance
NewInstance(h) == Cardinality(DOMAIN h) + 1

\* the graphs rooted at a Pair: the Pair at 1, the Points from 2 on
PairGraphs ==
    { [a \in 1 .. MaxObjects |->
         IF a = 1
         THEN [cls |-> "Pair", val |-> [n \in {"first", "second"} |-> ptr[n]]]
         ELSE [cls |-> "Point", val |-> [n \in {"x"} |-> num[a]]]] :
      ptr \in [{"first", "second"} -> 2 .. MaxObjects],
      num \in [2 .. MaxObjects -> NumValues] }

\* the graphs of Samples: each circularRef points to a Sample, itself or another
SampleGraphs ==
    { [a \in 1 .. MaxObjects - 1 |->
         [cls |-> "Sample",
          val |-> [n \in {"intMember", "circularRef"} |->
                     IF n = "intMember" THEN num[a] ELSE ptr[a]]]] :
      ptr \in [1 .. MaxObjects - 1 -> 1 .. MaxObjects - 1],
      num \in [1 .. MaxObjects - 1 -> NumValues] }

Graphs == PairGraphs \cup SampleGraphs

(***************************************************************************)
(* JSONWriter: JSONSerializer.hpp                                          *)
(***************************************************************************)
\* A step whose result the following steps use more than once is bound as the
\* one element of a set, so that it is computed once: The({F(x) : x \in {e}})
\* is F(e).
The(S) == CHOOSE x \in S : TRUE

\* JSONWriter::JSONWriter: indentLevel is 0, need_nl and col_need_nl are not
\* initialised; m_objectRegistry is the identity map of the traversal
NewWriter(stream, nl, col_nl) ==
    [m_stream |-> stream, need_nl |-> nl, col_need_nl |-> col_nl, indentLevel |-> 0,
     m_objectRegistry |-> <<>>]

\* m_stream << s
Put(w, s) == [w EXCEPT !.m_stream = @ \o s]

\* JSONWriter::indent
indent(w) == Put(w, [i \in 1 .. w.indentLevel |-> "\t"])

\* JSONWriter::writeInt
writeInt(w, value) == Put(w, numToStr(value))

\* the characters that are not printable ASCII are named: SOH, BS (backspace),
\* VT, E9 (the byte 0xE9); these are the codes of the characters named and of
\* the letter a
CodeTable ==
    <<<<"SOH", 1>>, <<"BS", 8>>, <<"\t", 9>>, <<"\n", 10>>, <<"VT", 11>>, <<"\f", 12>>,
      <<"\r", 13>>, <<"a", 97>>, <<"E9", 233>>>>

\* the code of the character c
CodeOf(c) == CodeTable[CHOOSE i \in DOMAIN CodeTable : CodeTable[i][1] = c][2]

\* char( n ): the character of code n modulo 256; ? stands for every character
\* that has no name here
CharOf(n) ==
    IF \E i \in DOMAIN CodeTable : CodeTable[i][2] = n % 256
    THEN CodeTable[CHOOSE i \in DOMAIN CodeTable : CodeTable[i][2] = n % 256][1]
    ELSE "?"

HexDigits == <<"0", "1", "2", "3", "4", "5", "6", "7", "8", "9", "a", "b", "c", "d", "e", "f">>

HexDigitsUpper == <<"0", "1", "2", "3", "4", "5", "6", "7", "8", "9", "A", "B", "C", "D", "E", "F">>

IsHexDigit(c) == \E d \in 1 .. 16 : HexDigits[d] = c \/ HexDigitsUpper[d] = c

HexDigitVal(c) == (CHOOSE d \in 1 .. 16 : HexDigits[d] = c \/ HexDigitsUpper[d] = c) - 1

\* d << std::hex << num; d >> n: the value of the leading hex digits of num,
\* continuing from acc
RECURSIVE HexToNat(_, _)
HexToNat(num, acc) ==
    IF num = <<>> \/ ~IsHexDigit(Head(num)) THEN acc
    ELSE HexToNat(Tail(num), 16 * acc + HexDigitVal(Head(num)))

\* the character a \uXXXX stands for; when num does not start with a hex
\* digit the extraction fails and n, never initialised, is any value
UnicodeChar(num) ==
    IF num # <<>> /\ IsHexDigit(Head(num)) THEN CharOf(HexToNat(num, 0)) ELSE "?"

\* the characters MetaString::addEscapeSeq writes as \uXXXX: the control
\* characters without a short escape and the characters that are not ASCII
IsUnicodeEscaped(c) == c \in {"SOH", "VT", "E9"}

\* the four hex digits of a code below 65536
Hex4(n) ==
    <<HexDigits[((n \div 4096) % 16) + 1], HexDigits[((n \div 256) % 16) + 1],
      HexDigits[((n \div 16) % 16) + 1], HexDigits[(n % 16) + 1]>>

\* MetaString::addEscapeSeq
RECURSIVE addEscapeSeq(_)
addEscapeSeq(s) ==
    IF s = <<>> THEN <<>>
    ELSE LET c == Head(s)
         IN  (CASE c = "\"" -> <<"\\", "\"">>
                [] c = "\\" -> <<"\\", "\\">>
                [] c = "BS" -> <<"\\", "b">>
                [] c = "\f" -> <<"\\", "f">>
                [] c = "\n" -> <<"\\", "n">>
                [] c = "\r" -> <<"\\", "r">>
                [] c = "\t" -> <<"\\", "t">>
                [] IsUnicodeEscaped(c) -> <<"\\", "u">> \o Hex4(CodeOf(c))
                [] OTHER -> <<c>>)
             \o addEscapeSeq(Tail(s))

\* JSONWriter::writeString
writeString(w, s) == Put(w, <<"\"">> \o addEscapeSeq(s) \o <<"\"">>)

\* JSONWriter::writeDouble
writeDouble(w, value) == Put(w, numToStr(value))

\* propertyBegin without the indentation
propertyBeginNoIndent(w, propName) ==
    LET w1 == IF w.need_nl THEN Put(w, <<",", "\n">>) ELSE w
    IN  Put([w1 EXCEPT !.need_nl = TRUE], <<"\"">> \o Chars(propName) \o <<"\"", ":", " ">>)

\* JSONWriter::propertyBegin
propertyBegin(w, propName) ==
    LET w1 == IF w.need_nl THEN Put(w, <<",", "\n">>) ELSE w
        w2 == indent([w1 EXCEPT !.need_nl = TRUE])
    IN  Put(w2, <<"\"">> \o Chars(propName) \o <<"\"", ":", " ">>)

\* JSONWriter::propertyEnd
propertyEnd(w) == w

\* JSONWriter::elementEnd
elementEnd(w) == w

\* JSONWriter::collectionBegin
collectionBegin(w) ==
    indent([Put(w, <<"[", "\n">>) EXCEPT !.col_need_nl = FALSE, !.indentLevel = @ + 1])

\* collectionEnd without --indentLevel
collectionEndKeepingLevel(w) == Put(indent(Put(w, <<"\n">>)), <<"]">>)

\* JSONWriter::collectionEnd
collectionEnd(w) == Put(indent(Put([w EXCEPT !.indentLevel = @ - 1], <<"\n">>)), <<"]">>)

\* JSONWriter::elementBegin
elementBegin(w) ==
    [(IF w.col_need_nl THEN indent(Put(w, <<",", "\n">>)) ELSE w) EXCEPT !.col_need_nl = TRUE]

\* JSONWriter::writeNullPtr
writeNullPtr(w) == Put(w, <<"N", "U", "L", "L">>)

\* JSONWriter::writeObjectId
writeObjectId(w, objId) ==
    Put([indent(w) EXCEPT !.need_nl = TRUE],
        <<"\"">> \o Chars("$id") \o <<"\"", ":", " ", "\"">> \o objId \o <<"\"">>)

\* writeObjectRef writing the identity marker
writeObjectRefAsId(w, objId) == writeObjectId(w, objId)

\* JSONWriter::writeObjectRef
writeObjectRef(w, objId) ==
    Put([indent(w) EXCEPT !.need_nl = TRUE],
        <<"\"">> \o Chars("$ref") \o <<"\"", ":", " ", "\"">> \o objId \o <<"\"">>)

\* JSONWriter::objectBegin
WriterObjectBegin(w, cls) ==
    [w EXCEPT !.need_nl = FALSE,
              !.m_stream = @ \o Chars(cls) \o <<" ", "{", "\n">>,
              !.indentLevel = @ + 1]

\* JSONWriter::objectEnd
WriterObjectEnd(w) ==
    LET w1 == Put([w EXCEPT !.indentLevel = @ - 1], <<"\n">>)
    IN  [Put(indent(w1), <<"}">>) EXCEPT !.need_nl = TRUE]

\* GenericWriter: the traversal.  An instance met for the first time is given
\* the next id and written as a full body that starts with its id; an instance
\* met again is written as a body that holds a reference to its id.
RECURSIVE writeObject(_, _, _)
RECURSIVE writeProperties(_, _, _, _)
writeObject(w, h, addr) ==
    IF addr \in DOMAIN w.m_objectRegistry
    THEN WriterObjectEnd(writeObjectRef(WriterObjectBegin(w, h[addr].cls),
                                        w.m_objectRegistry[addr]))
    ELSE LET objId == numToStr(Cardinality(DOMAIN w.m_objectRegistry))
             w1 == [w EXCEPT !.m_objectRegistry = @ @@ (addr :> objId)]
         IN  The({WriterObjectEnd(w3) :
                  w3 \in {writeProperties(w2, h, addr, 1) :
                          w2 \in {writeObjectId(WriterObjectBegin(w1, h[addr].cls), objId)}}})

\* the properties of the instance at addr from the i'th on
writeProperties(w, h, addr, i) ==
    IF i > Len(properties(h[addr].cls)) THEN w
    ELSE LET prop == properties(h[addr].cls)[i]
             value == h[addr].val[prop.name]
             w1 == propertyBegin(w, prop.name)
         IN  The({writeProperties(propertyEnd(w2), h, addr, i + 1) :
                  w2 \in {IF prop.type = "int" THEN writeInt(w1, value)
                          ELSE IF prop.type = "double" THEN writeDouble(w1, value)
                          ELSE IF value = NULL THEN writeNullPtr(w1)
                          ELSE writeObject(w1, h, value)}})

\* GenericWriter::serialize: the text of the graph h from its root
serialize(w, h) == writeObject(w, h, 1).m_stream

\* the identity map at the start of a top-level call: cleared
clearRefs(refs) == <<>>

\* the identity map left as the traversal filled it
keepRefs(refs) == refs

\* the identity map when a top-level call returns: its entries do not outlive
\* the call
discardRefs(refs) == <<>>

(***************************************************************************)
(* JSONReader: JSONSerializer.hpp                                          *)
(***************************************************************************)
\* what m_stream.get() returns at the end of the stream
EOF == "EOF"

\* currentChar = m_stream.get()
Get(rd) ==
    IF rd.pos <= Len(rd.s)
    THEN [rd EXCEPT !.currentChar = rd.s[rd.pos], !.pos = @ + 1]
    ELSE [rd EXCEPT !.currentChar = EOF]

\* JSONReader::JSONReader
NewReader(stream) == Get([s |-> stream, pos |-> 1, currentChar |-> EOF, err |-> "none"])

\* a loop that does not stop at the end of the stream: get() returns EOF again
\* and again, and the loop spins on it for ever or appends it to its text until
\* the memory is used up
Hang(rd) == [rd EXCEPT !.err = "hang"]

\* a call that throws Error
Throw(rd) == [rd EXCEPT !.err = "Error"]

\* JSONReader::isSeparator: looks at currentChar, whatever c is
isSeparator(rd) == IsSpace(rd.currentChar) \/ rd.currentChar = ","

\* JSONReader::skipSpaces
RECURSIVE skipSpaces(_)
skipSpaces(rd) ==
    IF isSeparator(rd) THEN The({skipSpaces(r1) : r1 \in {Get(rd)}}) ELSE rd

\* JSONReader::skipColon
RECURSIVE skipColon(_)
skipColon(rd) ==
    IF rd.currentChar = ":" THEN The({skipColon(r1) : r1 \in {Get(rd)}}) ELSE rd

\* JSONReader::removeEscapeSeq
RECURSIVE removeEscapeSeq(_)
removeEscapeSeq(s) ==
    IF s = <<>> THEN <<>>
    ELSE IF Head(s) = "\\" /\ Len(s) >= 2
         THEN LET c == s[2]
              IN  IF c = "u"
                  THEN LET num == SubSeq(s, 3, IF Len(s) < 6 THEN Len(s) ELSE 6)
                       IN  <<UnicodeChar(num)>>
                           \o removeEscapeSeq(SubSeq(s, 3 + Len(num), Len(s)))
                  ELSE <<CASE c = "b" -> "BS"
                           [] c = "f" -> "\f"
                           [] c = "n" -> "\n"
                           [] c = "r" -> "\r"
                           [] c = "t" -> "\t"
                           [] OTHER -> c>>
                       \o removeEscapeSeq(SubSeq(s, 3, Len(s)))
         ELSE <<Head(s)>> \o removeEscapeSeq(Tail(s))

\* the loop of getString taking a backslash as any other character
RECURSIVE StringLoopNoEscape(_, _)
StringLoopNoEscape(rd, text) ==
    IF rd.currentChar = "\"" THEN [rd |-> Get(rd), v |-> removeEscapeSeq(text)]
    ELSE IF rd.currentChar = EOF THEN [rd |-> Hang(rd), v |-> text]
    ELSE StringLoopNoEscape(Get(rd), Append(text, rd.currentChar))

\* the loop of JSONReader::getString
RECURSIVE StringLoop(_, _)
StringLoop(rd, text) ==
    IF rd.currentChar = "\"" THEN [rd |-> Get(rd), v |-> removeEscapeSeq(text)]
    ELSE IF rd.currentChar = EOF THEN [rd |-> Hang(rd), v |-> text]
    ELSE IF rd.currentChar = "\\"
         THEN The({IF r1.currentChar = EOF THEN [rd |-> Hang(r1), v |-> text]
                   ELSE The({StringLoop(r2, t2) :
                             r2 \in {Get(r1)}, t2 \in {text \o <<"\\", r1.currentChar>>}}) :
                   r1 \in {Get(rd)}})
         ELSE The({StringLoop(r1, t1) :
                   r1 \in {Get(rd)}, t1 \in {Append(text, rd.currentChar)}})

\* JSONReader::getString
getString(rd) == The({StringLoop(r1, <<>>) : r1 \in {Get(rd)}})

\* the loop of getToken reading on past the separator that ends the token
RECURSIVE TokenLoopPastSeparator(_, _)
TokenLoopPastSeparator(rd, token) ==
    IF isSeparator(rd) THEN [rd |-> Get(rd), v |-> token]
    ELSE IF rd.currentChar = EOF THEN [rd |-> Hang(rd), v |-> token]
    ELSE The({TokenLoopPastSeparator(r1, t1) :
              r1 \in {Get(rd)}, t1 \in {Append(token, rd.currentChar)}})

\* the loop of JSONReader::getToken
RECURSIVE TokenLoop(_, _)
TokenLoop(rd, token) ==
    IF isSeparator(rd) THEN [rd |-> rd, v |-> token]
    ELSE IF rd.currentChar = EOF THEN [rd |-> Hang(rd), v |-> token]
    ELSE The({TokenLoop(r1, t1) :
              r1 \in {Get(rd)}, t1 \in {Append(token, rd.currentChar)}})

\* JSONReader::getToken
getToken(rd) ==
    The({IF r1.currentChar = "\"" THEN getString(r1) ELSE TokenLoop(r1, <<>>) :
         r1 \in {IF isSeparator(rd) THEN skipSpaces(rd) ELSE rd}})

\* JSONReader::readInt
readInt(rd) == The({[rd |-> t.rd, v |-> strToNum(t.v)] : t \in {getToken(rd)}})

\* JSONReader::readDouble
readDouble(rd) == The({[rd |-> t.rd, v |-> strToNum(t.v)] : t \in {getToken(rd)}})

\* the loop of JSONReader::objectBegin
RECURSIVE TypeNameLoop(_, _)
TypeNameLoop(rd, objTypeName) ==
    IF rd.currentChar = "{" THEN [rd |-> Get(rd), v |-> Trim(objTypeName)]
    ELSE IF rd.currentChar = EOF THEN [rd |-> Hang(rd), v |-> objTypeName]
    ELSE The({TypeNameLoop(r1, t1) :
              r1 \in {Get(rd)}, t1 \in {Append(objTypeName, rd.currentChar)}})

\* JSONReader::objectBegin
ReaderObjectBegin(rd) == The({TypeNameLoop(r1, <<>>) : r1 \in {skipSpaces(rd)}})

\* JSONReader::endObject
endObject(rd) == The({[rd |-> r1, v |-> r1.currentChar = "}"] : r1 \in {skipSpaces(rd)}})

\* JSONReader::objectEnd
RECURSIVE ReaderObjectEnd(_)
ReaderObjectEnd(rd) ==
    The({IF e.v THEN Get(e.rd)
         ELSE IF e.rd.currentChar = EOF THEN Hang(e.rd)
         ELSE The({ReaderObjectEnd(r1) : r1 \in {Get(e.rd)}}) :
         e \in {endObject(rd)}})

\* JSONReader::collectionBegin
RECURSIVE ReaderCollectionBegin(_)
ReaderCollectionBegin(rd) ==
    IF rd.currentChar = "[" THEN Get(rd)
    ELSE IF rd.currentChar = EOF THEN Hang(rd)
    ELSE The({ReaderCollectionBegin(r1) : r1 \in {Get(rd)}})

\* JSONReader::endCollection
endCollection(rd) == The({[rd |-> r1, v |-> r1.currentChar = "]"] : r1 \in {skipSpaces(rd)}})

\* JSONReader::collectionEnd
RECURSIVE ReaderCollectionEnd(_)
ReaderCollectionEnd(rd) ==
    The({IF e.v THEN Get(e.rd)
         ELSE IF e.rd.currentChar = EOF THEN Hang(e.rd)
         ELSE The({ReaderCollectionEnd(r1) : r1 \in {Get(e.rd)}}) :
         e \in {endCollection(rd)}})

\* Reflector::metatype( objTypeName ): the class of that name, "" when there is none
ClassOfText(text) ==
    IF \E c \in Classes : Chars(c) = text
    THEN CHOOSE c \in Classes : Chars(c) = text
    ELSE ""

\* Metatype::property( propName ): the index of the property of that name, 0
\* when there is none
PropertyIndex(mt, text) ==
    IF \E i \in DOMAIN properties(mt) : Chars(properties(mt)[i].name) = text
    THEN CHOOSE i \in DOMAIN properties(mt) : Chars(properties(mt)[i].name) = text
    ELSE 0

\* prop.set( instance, mod )
SetProperty(h, instance, name, mod) == [h EXCEPT ![instance].val[name] = mod]

RECURSIVE readObject(_, _, _, _, _)
RECURSIVE readProperties(_, _, _, _, _)
RECURSIVE readProperty(_, _, _, _, _)
\* readObject constructing the instance from the metatype it is handed, not
\* from the name in the stream
ReadBodyStatic(b, h, mt, instance, junk) ==
    LET addr == IF instance = NULL THEN NewInstance(h) ELSE instance
    IN  IF b.rd.err # "none" THEN [rd |-> b.rd, h |-> h, v |-> instance]
        ELSE The({IF body.rd.err # "none" THEN [rd |-> body.rd, h |-> body.h, v |-> addr]
                  ELSE [rd |-> ReaderObjectEnd(body.rd), h |-> body.h, v |-> addr] :
                  body \in {readProperties(b.rd, h1, mt, addr, junk) :
                            h1 \in {IF instance = NULL
                                    THEN h @@ (addr :> create(mt, addr, junk))
                                    ELSE h}}})

\* the body of JSONReader::readObject after objectBegin has returned b
ReadBody(b, h, mt, instance, junk) ==
    LET cls == ClassOfText(b.v)
        addr == IF instance = NULL THEN NewInstance(h) ELSE instance
    IN  IF b.rd.err # "none" THEN [rd |-> b.rd, h |-> h, v |-> instance]
        ELSE IF instance = NULL /\ cls = "" THEN [rd |-> Throw(b.rd), h |-> h, v |-> instance]
        ELSE The({IF body.rd.err # "none" THEN [rd |-> body.rd, h |-> body.h, v |-> addr]
                  ELSE [rd |-> ReaderObjectEnd(body.rd), h |-> body.h, v |-> addr] :
                  body \in {readProperties(b.rd, h1, mt, addr, junk) :
                            h1 \in {IF instance = NULL
                                    THEN h @@ (addr :> create(cls, addr, junk))
                                    ELSE h}}})

\* JSONReader::readObject: the reader, the heap and the instance it leaves
readObject(rd, h, mt, instance, junk) ==
    The({ReadBody(b, h, mt, instance, junk) : b \in {ReaderObjectBegin(rd)}})

\* the loop of JSONReader::readObject: while ( !endObject() ) readProperty
readProperties(rd, h, mt, instance, junk) ==
    The({IF e.v THEN [rd |-> e.rd, h |-> h]
         ELSE The({IF p.rd.err # "none" THEN p
                   ELSE readProperties(p.rd, p.h, mt, instance, junk) :
                   p \in {readProperty(e.rd, h, mt, instance, junk)}}) :
         e \in {endObject(rd)}})

\* the boost::any a `return 0` makes: an int
FoundReference == AnyOf("int", 0)

\* JSONReader::readProperty on a $id or a $ref: the id token is read and
\* dropped; after a $id the function runs to its final return boost::any(),
\* after a $ref it leaves through return 0
ReadMarker(t, r1, h) ==
    [rd |-> getToken(r1).rd, h |-> h,
     v |-> IF t.v = Chars("$ref") THEN FoundReference ELSE EmptyAny,
     called |-> {}]

\* the body of JSONReader::readProperty after getToken has returned t.  The
\* value is read through the metatype of the property: a number by readInt or
\* readDouble, a pointer by readObject with the metatype of the pointee and
\* the instance the property points to now.  v is what readProperty returns,
\* called the accessors of the property it has called.
ReadValue(t, r1, h, mt, instance, junk) ==
    LET i == PropertyIndex(mt, t.v)
    IN  IF t.rd.err # "none" THEN [rd |-> t.rd, h |-> h, v |-> EmptyAny, called |-> {}]
        ELSE IF t.v = Chars("$id") \/ t.v = Chars("$ref") THEN ReadMarker(t, r1, h)
        ELSE IF i = 0 THEN [rd |-> Throw(r1), h |-> h, v |-> EmptyAny, called |-> {}]
        ELSE LET prop == properties(mt)[i]
                 now == h[instance].val[prop.name]
             IN  The({IF mod.rd.err # "none"
                      THEN [rd |-> mod.rd, h |-> mod.h, v |-> EmptyAny, called |-> {"get"}]
                      ELSE [rd |-> mod.rd,
                            h |-> SetProperty(mod.h, instance, prop.name, mod.v),
                            v |-> EmptyAny, called |-> {"get", "set"}] :
                      mod \in {IF prop.type = "int" THEN readInt(r1) @@ [h |-> h]
                               ELSE IF prop.type = "double" THEN readDouble(r1) @@ [h |-> h]
                               ELSE readObject(r1, h, prop.type, now, junk)}})

\* JSONReader::readProperty
readProperty(rd, h, mt, instance, junk) ==
    The({The({ReadValue(t, r1, h, mt, instance, junk) : r1 \in {skipColon(t.rd)}}) :
         t \in {getToken(rd)}})

\* what is left in the stream once the reader has stopped
Unread(rd) == SubSeq(rd.s, rd.pos, Len(rd.s))

(***************************************************************************)
(* The calls of the application on the codec                               *)
(***************************************************************************)
\* what a codec call hands back
SRet(op, err) == [op |-> op, err |-> err]

\* JSONWriter writer( stream ); writer.serialize( root ), on an empty stream
Serialize ==
    /\ m_stream = <<>>
    /\ \E nl, col_nl \in BOOLEAN :
           \E w \in {[NewWriter(m_stream, nl, col_nl)
                          EXCEPT !.m_objectRegistry = clearRefs(m_addressRefs)]} :
               /\ m_stream' = serialize(w, graph)
               /\ m_addressRefs' = discardRefs(writeObject(w, graph, 1).m_objectRegistry)
    /\ ret' = SRet("serialize", "none")
    /\ UNCHANGED <<graph, target, notCodec>>

\* JSONReader reader( stream ); reader.readObject( metatype of the root, root )
Deserialize ==
    \E junk \in NumValues :
        LET r == readObject(NewReader(m_stream), target, target[1].cls, 1, junk)
        IN  /\ target' = r.h
            /\ m_stream' = Unread(r.rd)
            /\ ret' = SRet("deserialize", r.rd.err)
            /\ UNCHANGED <<graph, m_addressRefs, notCodec>>

\* JSONReader::readString
readString(rd) == getToken(rd)

(***************************************************************************)
(* The calls of the application on a writer and a reader of one string     *)
(***************************************************************************)
\* the longest string written
MaxStrLen == 3

\* the characters of the strings written: a letter, u (the letter after the
\* backslash of a unicode escape), a hex digit, the quote, the backslash, the
\* newline, a control character and a byte that is not ASCII
StringChars == {"a", "u", "0", "\"", "\\", "\n", "SOH", "E9"}

Strings == UNION {[1 .. n -> StringChars] : n \in 0 .. MaxStrLen}

\* what the writer puts after a string: the separators of writeProperties and
\* the quote of the next string
FollowChars == {",", "\n", "\""}

\* what a call on the writer or the reader hands back
TRet(op, v, err) == [op |-> op, v |-> v, err |-> err]

\* writer.writeString( given ) on a new stream
WriteString ==
    /\ ret.op = "JSONWriter"
    /\ writer' = writeString(writer, given)
    /\ ret' = TRet("writeString", <<>>, "none")
    /\ UNCHANGED <<reader, given, calls, scopes, notIo>>

\* m_stream << c: what the writer writes next
WriteNext(c) ==
    /\ ret.op = "writeString"
    /\ writer' = Put(writer, <<c>>)
    /\ ret' = TRet("write", <<>>, "none")
    /\ UNCHANGED <<reader, given, calls, scopes, notIo>>

\* JSONReader reader( stream ); reader.readString() on what the writer wrote
ReadString ==
    /\ ret.op \in {"writeString", "write"}
    /\ LET r == readString(NewReader(writer.m_stream))
       IN  /\ reader' = r.rd
           /\ ret' = TRet("readString", r.v, r.rd.err)
    /\ UNCHANGED <<writer, given, calls, scopes, notIo>>

(***************************************************************************)
(* The calls of a traversal on a writer.  GenericWriter calls objectBegin, *)
(* then writeObjectId or writeObjectRef or nothing, then for each property *)
(* propertyBegin, the value, propertyEnd, then objectEnd; a value is a     *)
(* primitive, an object, or a collection: collectionBegin, for each        *)
(* element elementBegin, the value, elementEnd, then collectionEnd.        *)
(***************************************************************************)
\* the most calls a traversal makes
MaxCalls == 9

\* the classes, property names, numbers, strings and ids the traversal writes
WriterClasses == {"TypeName"}

WriterProps == {"count", "x"}

WriterInts == {23}

WriterStrings == {<<"a">>}

WriterIds == {<<"0">>}

\* the scope the traversal is in
Top == scopes[Len(scopes)]

\* entering a scope
Push(kind) == Append(scopes, [kind |-> kind, n |-> 0])

\* one more item in the scope the traversal is in
Count(sc) == IF sc = <<>> THEN sc ELSE [sc EXCEPT ![Len(sc)].n = @ + 1]

\* leaving a scope, which is one more item of the scope around it
Pop == Count(SubSeq(scopes, 1, Len(scopes) - 1))

\* the traversal is in a scope of one of the kinds
Inside(kinds) == scopes # <<>> /\ Top.kind \in kinds

\* a property or an element has begun and its value is not written yet
ValueExpected == Inside({"property", "element"}) /\ Top.n = 0

\* a property or an element has its value
ValueWritten == Top.n = 1

\* the call op( arg ) that leaves the writer as w and the traversal in sc
WriterCall(op, arg, w, sc) ==
    /\ Len(calls) < MaxCalls
    /\ writer' = w
    /\ scopes' = sc
    /\ calls' = Append(calls, <<op, arg>>)
    /\ ret' = TRet(op, arg, "none")
    /\ UNCHANGED <<reader, given, notIo>>

ObjectBegin(cls) ==
    /\ calls = <<>> \/ ValueExpected
    /\ WriterCall("objectBegin", Chars(cls), WriterObjectBegin(writer, cls), Push("object"))

WriteObjectId(objId) ==
    /\ Inside({"object"}) /\ Top.n = 0
    /\ WriterCall("writeObjectId", objId, writeObjectId(writer, objId), Count(scopes))

WriteObjectRef(objId) ==
    /\ Inside({"object"}) /\ Top.n = 0
    /\ WriterCall("writeObjectRef", objId, writeObjectRef(writer, objId), Count(scopes))

PropertyBegin(propName) ==
    /\ Inside({"object"})
    /\ WriterCall("propertyBegin", Chars(propName), propertyBegin(writer, propName),
                  Push("property"))

PropertyEnd ==
    /\ Inside({"property"}) /\ ValueWritten
    /\ WriterCall("propertyEnd", <<>>, propertyEnd(writer), Pop)

ObjectEnd ==
    /\ Inside({"object"})
    /\ WriterCall("objectEnd", <<>>, WriterObjectEnd(writer), Pop)

CollectionBegin ==
    /\ ValueExpected
    /\ WriterCall("collectionBegin", <<>>, collectionBegin(writer), Push("collection"))

ElementBegin ==
    /\ Inside({"collection"})
    /\ WriterCall("elementBegin", <<>>, elementBegin(writer), Push("element"))

ElementEnd ==
    /\ Inside({"element"}) /\ ValueWritten
    /\ WriterCall("elementEnd", <<>>, elementEnd(writer), Pop)

CollectionEnd ==
    /\ Inside({"collection"})
    /\ WriterCall("collectionEnd", <<>>, collectionEnd(writer), Pop)

WriteInt(v) ==
    /\ ValueExpected
    /\ WriterCall("writeInt", numToStr(v), writeInt(writer, v), Count(scopes))

WriteStringValue(s) ==
    /\ ValueExpected
    /\ WriterCall("writeString", s, writeString(writer, s), Count(scopes))

WriteNullPtr ==
    /\ ValueExpected
    /\ WriterCall("writeNullPtr", <<>>, writeNullPtr(writer), Count(scopes))

(***************************************************************************)
(* The calls of a decoder on a reader of any text                          *)
(***************************************************************************)
\* the longest text read
MaxInput == 4

\* the characters of the texts read: a letter, the separators, the quote, the
\* backslash, the braces and the brackets
InputChars == {"a", " ", ",", "\"", "\\", "{", "}", "[", "]"}

Inputs == UNION {[1 .. n -> InputChars] : n \in 0 .. MaxInput}

\* a call on the reader that has returned, or has not, and what it returned
ReaderCall(op, r) ==
    /\ reader.err = "none"
    /\ reader' = r.rd
    /\ ret' = TRet(op, r.v, r.rd.err)
    /\ UNCHANGED <<writer, given, calls, scopes, notIo>>

GetToken == ReaderCall("getToken", getToken(reader))

SkipSpaces == ReaderCall("skipSpaces", [rd |-> skipSpaces(reader), v |-> <<>>])

ReadObjectBegin == ReaderCall("objectBegin", ReaderObjectBegin(reader))

EndObject == ReaderCall("endObject", endObject(reader))

ReadObjectEnd == ReaderCall("objectEnd", [rd |-> ReaderObjectEnd(reader), v |-> <<>>])

ReadCollectionBegin ==
    ReaderCall("collectionBegin", [rd |-> ReaderCollectionBegin(reader), v |-> <<>>])

EndCollection == ReaderCall("endCollection", endCollection(reader))

ReadCollectionEnd ==
    ReaderCall("collectionEnd", [rd |-> ReaderCollectionEnd(reader), v |-> <<>>])

\* a name or an id between quotes
Quoted(text) == <<"\"">> \o text \o <<"\"">>

\* what a writer leaves before a reader that is to read a property: an identity
\* or a reference marker with its id, or the property intMember with its
\* number, and what follows them in an object
PropertyTexts ==
    {Quoted(Chars(name)) \o <<":", " ">> \o val \o follow :
         name \in {"$id", "$ref"}, val \in {Quoted(<<"0">>)}, follow \in {<<",", "\n">>, <<"\n", "}">>}}
    \cup {Quoted(Chars("intMember")) \o <<":", " ", "1", "2", "\n", "}">>}

\* the Sample the decoder reads into, as the application constructed it
SampleInstance == 1 :> create("Sample", 1, 0)

\* reader.readProperty( metatype of Sample, instance )
ReadPropertyCall ==
    /\ reader.err = "none"
    /\ \E r \in {readProperty(reader, SampleInstance, "Sample", 1, 0)} :
           /\ reader' = r.rd
           /\ ret' = [op |-> "readProperty", v |-> r.v, err |-> r.rd.err,
                      called |-> r.called, instance |-> r.h[1]]
    /\ UNCHANGED <<writer, given, calls, scopes, notIo>>

(***************************************************************************)
(* Reflector::demangle, the branch that uses the prefix decorators         *)
(***************************************************************************)
\* the most prefix decorators registered
MaxDecorators == 4

\* the decorators the application registers
Decorators == {"struct", "class", "enum"}

\* the names of application types as typeid( T ).name() may give them
TypeTexts ==
    {<<"A">>, <<"A", "_">> \o Chars("class"), <<"A", "_">> \o Chars("struct") \o <<"_", "B">>}

\* the names handed to demangle: a type name, bare or behind a decoration
MangledNames ==
    TypeTexts \cup {Chars(d) \o <<" ">> \o t : d \in Decorators, t \in TypeTexts}

\* std::string::find: the place of the first occurrence of sub in text, from
\* 0; npos is -1
find(text, sub) ==
    LET places == {i \in 0 .. Len(text) - Len(sub) : SubSeq(text, i + 1, i + Len(sub)) = sub}
    IN  IF places = {} THEN -1 ELSE CHOOSE i \in places : \A j \in places : i <= j

\* std::string::substr( pos ): out_of_range when pos is past the end
substr(text, pos) ==
    IF pos > Len(text) THEN [v |-> <<>>, err |-> "out_of_range"]
    ELSE [v |-> SubSeq(text, pos + 1, Len(text)), err |-> "none"]

\* the loop of demangle over m_prefixDecorators from the k'th on
RECURSIVE demangleFrom(_, _, _)
demangleFrom(decorators, k, name) ==
    IF k > Len(decorators) THEN [v |-> name, err |-> "none"]
    ELSE IF find(name, Chars(decorators[k])) # -1
         THEN substr(name, find(name, Chars(decorators[k])) + Len(Chars(decorators[k])) + 1)
         ELSE demangleFrom(decorators, k + 1, name)

\* Reflector::demangle
demangle(decorators, name) == demangleFrom(decorators, 1, name)

\* a call of registerPrefixDecorator( decorator )
RegisterPrefixDecorator(decorator) ==
    /\ Len(m_prefixDecorators) < MaxDecorators
    /\ SetRegistry(registerPrefixDecorator(Registry, decorator))
    /\ ret' = [op |-> "registerPrefixDecorator", name |-> Chars(decorator), v |-> <<>>,
               err |-> "none"]
    /\ UNCHANGED notRegistry

\* a call of demangle( name )
Demangle(name) ==
    /\ ret' = [op |-> "demangle", name |-> name, v |-> demangle(m_prefixDecorators, name).v,
               err |-> demangle(m_prefixDecorators, name).err]
    /\ UNCHANGED <<regVars, notRegistry>>

\* what a writer leaves before a reader that is to read an object: an
\* instance of each class without a property written, and a Point with its x
ObjectTexts ==
    {Chars(cls) \o <<" ", "{", "\n", "\n", "}">> : cls \in Classes}
    \cup {Chars("Point") \o <<" ", "{", "\n", "\t">> \o Quoted(Chars("x"))
              \o <<":", " ", "1", "2", "\n", "}">>}

\* reader.readObject( metatype of Point, NULL ): the decoder of a Point *
\* property that is NULL; instance is the object constructed, if any
ReadObjectCall ==
    /\ reader.err = "none"
    /\ \E r \in {readObject(reader, <<>>, "Point", NULL, 0)} :
           /\ reader' = r.rd
           /\ ret' = [op |-> "readObject", v |-> r.v, err |-> r.rd.err,
                      instance |-> IF r.v = NULL THEN <<>> ELSE r.h[r.v]]
    /\ UNCHANGED <<writer, given, calls, scopes, notIo>>

(***************************************************************************)
(* Specifications: one per component, the others idle                      *)
(***************************************************************************)
\* the registry is not in use: Reflector::instance() has not been called, the
\* static Reflector is not constructed yet
RegistryIdle ==
    LET reg == EmptyRegistry
    IN  /\ meta_types = reg.meta_types
        /\ metaobjs = reg.metaobjs
        /\ m_pendingProperties = reg.pending
        /\ propMetatype = reg.propMetatype
        /\ m_prefixDecorators = reg.decorators

\* no property is in use
PropIdle ==
    /\ tprop = NewProperty
    /\ inst = [field |-> 0, intMember |-> 0]

\* no collection is in use
CollIdle ==
    /\ coll = <<>>
    /\ str = <<>>
    /\ encoded = <<>>

\* nothing is written or read
CodecIdle ==
    /\ graph = <<>>
    /\ m_stream = <<>>
    /\ target = <<>>
    /\ m_addressRefs = <<>>

\* no writer and no reader is constructed
IoIdle ==
    /\ writer = <<>>
    /\ reader = <<>>
    /\ given = <<>>
    /\ calls = <<>>
    /\ scopes = <<>>

\* Reflector::Reflector: clear() on the empty registry
Init ==
    LET reg == clear(EmptyRegistry)
    IN  /\ meta_types = reg.meta_types
        /\ metaobjs = reg.metaobjs
        /\ m_pendingProperties = reg.pending
        /\ propMetatype = reg.propMetatype
        /\ m_prefixDecorators = reg.decorators
        /\ ret = Ret("Reflector", "", 0, "none", FALSE)
        /\ PropIdle
        /\ CollIdle
        /\ CodecIdle
        /\ IoIdle

Next ==
    \/ \E op \in DeclareOps, C \in UserTypes : Declare(op, C)
    \/ \E name \in LookupNames : Lookup(name)
    \/ \E p \in Props : AddPendingProperty(PropTypeName(p), p)
    \/ Clear

Spec == Init /\ [][Next]_vars

NextDemangle ==
    \/ \E decorator \in Decorators : RegisterPrefixDecorator(decorator)
    \/ \E name \in MangledNames : Demangle(name)

\* the Reflector as constructed, its decorators and the names demangled
SpecDemangle == Init /\ [][NextDemangle]_vars

\* a new property and an instance of ClassT
InitProp ==
    /\ RegistryIdle
    /\ tprop = NewProperty
    /\ inst \in [field : FieldValues, intMember : FieldValues]
    /\ CollIdle
    /\ CodecIdle
    /\ IoIdle
    /\ ret = PRet("TypedProperty", EmptyAny, EmptyAny, "none")

NextProp ==
    \/ \E f \in Functors : SetterFunctor(f)
    \/ SetterMember
    \/ \E f \in Functors : GetterFunctor(f)
    \/ PropGet
    \/ \E val \in SetValues : PropSet(val)
    \/ \E v \in FieldValues : ReadProperty(AnyOf("int", v))

SpecProp == InitProp /\ [][NextProp]_vars

\* an empty collection, nothing encoded yet
InitColl ==
    /\ RegistryIdle
    /\ PropIdle
    /\ CollIdle
    /\ CodecIdle
    /\ IoIdle
    /\ ret = CRet("Metacollection")

NextColl ==
    \/ \E x \in ElemValues : CollInsert(x)
    \/ CollClear
    \/ CollToStr
    \/ CollFromStr

SpecColl == InitColl /\ [][NextColl]_vars

\* the application has built a graph and default-constructed the root to read
\* into; nothing is written yet
InitCodec ==
    /\ RegistryIdle
    /\ PropIdle
    /\ CollIdle
    /\ graph \in Graphs
    /\ m_stream = <<>>
    /\ m_addressRefs = <<>>
    /\ IoIdle
    /\ \E junk \in NumValues : target = (1 :> create(graph[1].cls, 1, junk))
    /\ ret = SRet("JSONWriter", "none")

NextCodec ==
    \/ Serialize
    \/ Deserialize

SpecCodec == InitCodec /\ [][NextCodec]_vars

\* a string to write and a new JSONWriter on an empty stream
InitString ==
    /\ RegistryIdle
    /\ PropIdle
    /\ CollIdle
    /\ CodecIdle
    /\ given \in Strings
    /\ writer \in {NewWriter(<<>>, nl, col_nl) : nl, col_nl \in BOOLEAN}
    /\ reader = <<>>
    /\ calls = <<>>
    /\ scopes = <<>>
    /\ ret = TRet("JSONWriter", <<>>, "none")

NextString ==
    \/ WriteString
    \/ \E c \in FollowChars : WriteNext(c)
    \/ ReadString

SpecString == InitString /\ [][NextString]_vars

\* a new JSONWriter on an empty stream and a traversal that has not begun
InitWriter ==
    /\ RegistryIdle
    /\ PropIdle
    /\ CollIdle
    /\ CodecIdle
    /\ given = <<>>
    /\ writer \in {NewWriter(<<>>, nl, col_nl) : nl, col_nl \in BOOLEAN}
    /\ reader = <<>>
    /\ calls = <<>>
    /\ scopes = <<>>
    /\ ret = TRet("JSONWriter", <<>>, "none")

NextWriter ==
    \/ \E cls \in WriterClasses : ObjectBegin(cls)
    \/ \E objId \in WriterIds : WriteObjectId(objId)
    \/ \E objId \in WriterIds : WriteObjectRef(objId)
    \/ \E propName \in WriterProps : PropertyBegin(propName)
    \/ PropertyEnd
    \/ ObjectEnd
    \/ CollectionBegin
    \/ ElementBegin
    \/ ElementEnd
    \/ CollectionEnd
    \/ \E v \in WriterInts : WriteInt(v)
    \/ \E s \in WriterStrings : WriteStringValue(s)
    \/ WriteNullPtr

SpecWriter == InitWriter /\ [][NextWriter]_vars

\* a new JSONReader on a stream that holds the text given
InitReader ==
    /\ RegistryIdle
    /\ PropIdle
    /\ CollIdle
    /\ CodecIdle
    /\ given \in Inputs \cup PropertyTexts \cup ObjectTexts
    /\ reader = NewReader(given)
    /\ writer = <<>>
    /\ calls = <<>>
    /\ scopes = <<>>
    /\ ret = TRet("JSONReader", <<>>, "none")

NextReader ==
    \/ GetToken
    \/ SkipSpaces
    \/ ReadObjectBegin
    \/ EndObject
    \/ ReadObjectEnd
    \/ ReadCollectionBegin
    \/ EndCollection
    \/ ReadCollectionEnd
    \/ ReadPropertyCall
    \/ ReadObjectCall

SpecReader == InitReader /\ [][NextReader]_vars

(***************************************************************************)
(* Claims about the registry                                               *)
(***************************************************************************)
AllTypeNames == UserTypes \cup {PtrName(T) : T \in UserTypes}

\* C1: declaring a type again with the operation that registered it returns
\* the descriptor already bound to its name and changes nothing in the
\* registry: same names, same descriptors, no new descriptor, no error.
C1_DeclareIdempotent ==
    [][\A op \in DeclareOps, C \in UserTypes :
         ( /\ ret'.op = op /\ ret'.name = C
           /\ C \in DOMAIN meta_types
           /\ metaobjs[meta_types[C]].kind = KindOf(op) )
         => ( /\ ret'.desc = meta_types[C]
              /\ ret'.err = "none"
              /\ meta_types' = meta_types
              /\ metaobjs' = metaobjs
              /\ UNCHANGED <<m_pendingProperties, propMetatype, m_prefixDecorators>> )]_vars

\* C1 witness: a declaration found its type registered and returned its descriptor
C1_Witness ==
    /\ ret.op \in DeclareOps
    /\ ret.found
    /\ ret.err = "none"
    /\ ret.desc = meta_types[ret.name]
    /\ metaobjs[ret.desc].kind = KindOf(ret.op)

BoundAndFlushed(C) ==
    /\ \A i \in DOMAIN m_pendingProperties :
          m_pendingProperties[i].tname = C
          => propMetatype'[m_pendingProperties[i].prop] = meta_types'[C]
    /\ C \notin PendingNames(m_pendingProperties')

\* C6 as stated: the declaration that registers C binds the properties pending
\* on C, leaves no entry keyed by C, and keeps every entry keyed by any other
\* type name.
C6_OtherNamesStayQueued ==
    [][\A op \in DeclareOps, C \in UserTypes :
         (ret'.op = op /\ ret'.name = C /\ C \notin DOMAIN meta_types)
         => ( /\ BoundAndFlushed(C)
              /\ SelectEntries(m_pendingProperties', AllTypeNames \ {C})
                   = SelectEntries(m_pendingProperties, AllTypeNames \ {C}) )]_vars

\* C6 amended: the declaration that registers C binds the properties pending
\* on C, leaves no entry keyed by C, and keeps every entry keyed by a type
\* name other than C and C's pointer type.
C6_PendingFlushedOnDeclare ==
    [][\A op \in DeclareOps, C \in UserTypes :
         (ret'.op = op /\ ret'.name = C /\ C \notin DOMAIN meta_types)
         => ( /\ BoundAndFlushed(C)
              /\ SelectEntries(m_pendingProperties', AllTypeNames \ {C, PtrName(C)})
                   = SelectEntries(m_pendingProperties, AllTypeNames \ {C, PtrName(C)}) )]_vars

\* C6 witness: "A" has just been registered, the property pending on "A" is
\* bound to its descriptor and the property pending on "B" is still queued
C6_Witness ==
    /\ ret.op \in DeclareOps /\ ret.name = "A" /\ ~ret.found
    /\ propMetatype[1] = meta_types["A"]
    /\ PendingNames(m_pendingProperties) = {"B"}

(***************************************************************************)
(* Claims about properties                                                 *)
(***************************************************************************)
\* C9: a property to which only a getter was bound is readable and not
\* writable, and set() on it, whatever the value, leaves the instance as it
\* was and raises nothing.
C9_GetterOnlySetIsNoOp ==
    [][tprop.bound = {"getter"}
       => ( /\ isReadable(tprop)
            /\ ~isWritable(tprop)
            /\ (ret'.op = "set" => (inst' = inst /\ ret'.err = "none")) )]_vars

\* C9 witness: set() was called with an int on a property that has only a getter
C9_Witness ==
    /\ tprop.bound = {"getter"}
    /\ ret.op = "set"
    /\ ret.arg.type = "int"
    /\ ret.arg.v # inst.field

\* the property is bound to the data member
MemberBound == tprop.m_dataMember = "member"

\* the property is bound to a getter/setter functor pair
PairBound ==
    /\ tprop.m_dataMember = "NULL"
    /\ tprop.m_setter = "functor"
    /\ tprop.m_getter = "functor"

\* C10: bound to a data member or to a functor pair, set( instance, v ) stores
\* v in the field and get( instance ) returns the field's value.
C10_MemberBindingLikePair ==
    [][(MemberBound \/ PairBound)
       => ( /\ (ret'.op = "set" /\ ret'.arg.type = "int")
                => (inst'.field = ret'.arg.v /\ ret'.err = "none")
            /\ ret'.op = "get"
                => (ret'.err = "none" /\ ret'.val = AnyOf("int", inst.field)) )]_vars

(***************************************************************************)
(* Claims about collections                                                *)
(***************************************************************************)
\* the texts of the elements of c, in order
ElementTexts(c) == [i \in 1 .. Len(c) |-> numToStr(c[i])]

C8_DecodeClearsTarget ==
    [][ret'.op = "_fromStr" => coll' = encoded]_vars

(***************************************************************************)
(* Claims about the JSON codec                                             *)
(***************************************************************************)
\* the names of the pointer properties
PointerNames ==
    UNION {{properties(c)[i].name :
              i \in {j \in DOMAIN properties(c) : properties(c)[j].kind = "pointer"}} :
           c \in Classes}

\* the ways from the root along pointer properties
Paths == UNION {[1 .. n -> PointerNames] : n \in 0 .. MaxObjects}

\* the instance a path leads to from addr, NULL when the path does not exist
RECURSIVE Follow(_, _, _)
Follow(h, addr, path) ==
    IF path = <<>> THEN addr
    ELSE IF addr \notin DOMAIN h \/ Head(path) \notin DOMAIN h[addr].val THEN NULL
    ELSE Follow(h, h[addr].val[Head(path)], Tail(path))

\* the instances of h the traversal from the root reaches
Reachable(h) == {Follow(h, 1, p) : p \in Paths} \ {NULL}

\* the pointer properties of the reachable instances that point to an instance
PointerSlots(h) ==
    {<<a, n>> \in Reachable(h) \X PointerNames : n \in DOMAIN h[a].val /\ h[a].val[n] # NULL}

\* how often pat occurs in the text s
CountSub(s, pat) ==
    Cardinality({i \in 1 .. Len(s) - Len(pat) + 1 : SubSeq(s, i, i + Len(pat) - 1) = pat})

\* the identity marker of the id'th instance
IdMarker(id) == <<"\"">> \o Chars("$id") \o <<"\"", ":", " ", "\"">> \o numToStr(id) \o <<"\"">>

\* C3: the text of a graph with repeated or self-referential instances holds
\* one full body, marked with its own $id, for every reachable instance, and
\* one $ref marker for every further encounter of an instance; the encoding
\* ends without an error.
C3_OneBodyPerInstance ==
    [][ret'.op = "serialize"
       => LET bodies == Cardinality(Reachable(graph))
              encounters == 1 + Cardinality(PointerSlots(graph))
          IN  /\ ret'.err = "none"
              /\ CountSub(m_stream', <<"{">>) = encounters
              /\ CountSub(m_stream', <<"}">>) = encounters
              /\ CountSub(m_stream', Chars("$id")) = bodies
              /\ \A id \in 0 .. bodies - 1 : CountSub(m_stream', IdMarker(id)) = 1
              /\ CountSub(m_stream', Chars("$ref")) = encounters - bodies]_vars

\* C3 witness: a Sample whose circularRef points to itself is written as one
\* body and one reference
C3_Witness ==
    /\ ret.op = "serialize"
    /\ graph[1].cls = "Sample"
    /\ graph[1].val["circularRef"] = 1
    /\ CountSub(m_stream, Chars("$id")) = 1
    /\ CountSub(m_stream, Chars("$ref")) = 1

\* no instance of h is reached again from itself
Acyclic(h) ==
    \A p \in Paths, q \in Paths \ {<<>>} :
        Follow(h, 1, p) # NULL => Follow(h, Follow(h, 1, p), q) # Follow(h, 1, p)

\* every instance of src is found in dst on the same way from the root, with
\* the same class and the same numbers
SameValues(src, dst) ==
    \A p \in Paths :
        LET a == Follow(src, 1, p)
            b == Follow(dst, 1, p)
        IN  a # NULL
            => /\ b \in DOMAIN dst
               /\ dst[b].cls = src[a].cls
               /\ \A i \in DOMAIN properties(src[a].cls) :
                     properties(src[a].cls)[i].kind = "number"
                     => dst[b].val[properties(src[a].cls)[i].name]
                          = src[a].val[properties(src[a].cls)[i].name]

\* two ways that lead to one instance in src lead to one instance in dst
SameIdentity(src, dst) ==
    \A p \in Paths, q \in Paths :
        (Follow(src, 1, p) # NULL /\ Follow(src, 1, p) = Follow(src, 1, q))
        => (Follow(dst, 1, p) # NULL /\ Follow(dst, 1, p) = Follow(dst, 1, q))

\* the text of the graph is read into a default-constructed root
ReadsBack ==
    /\ ret'.op = "deserialize"
    /\ m_stream # <<>>
    /\ \E junk \in NumValues : target = (1 :> create(graph[1].cls, 1, junk))

\* C2: reading the text of an acyclic graph into a default-constructed root
\* gives a graph with the same instances and the same values.
C2_RoundTrip ==
    [][(ReadsBack /\ Acyclic(graph))
       => (ret'.err = "none" /\ SameValues(graph, target'))]_vars

\* C4: after reading, a pointer whose body was a $ref points to the instance
\* read for that $id: what was one instance in the graph written is one
\* instance in the graph read.
C4_RefRelinked ==
    [][ReadsBack => (ret'.err = "none" /\ SameIdentity(graph, target'))]_vars

\* C11: set() on a writable property with a value whose dynamic type is not
\* the property's type raises the cast error of boost::any_cast and leaves the
\* instance as it was.
C11_SetTypeMismatch ==
    [][(ret'.op = "set" /\ isWritable(tprop) /\ ret'.arg.type # "int")
       => (ret'.err = "bad_any_cast" /\ inst' = inst)]_vars

\* C11 witness: a std::string was set on a writable int property and refused
C11_Witness ==
    /\ ret.op = "set"
    /\ isWritable(tprop)
    /\ ret.arg.type = "std::string"
    /\ ret.arg.v # inst.field
    /\ ret.err = "bad_any_cast"

(***************************************************************************)
(* Claims about the writer and the reader of one value                     *)
(***************************************************************************)
\* C12: a string written by writeString and read back by the quoted-string
\* tokenizer comes back character for character, and the reader is left on the
\* character that follows the closing quote of the string.
C12_StringRoundTrip ==
    [][ret'.op = "readString" =>
          /\ ret'.err = "none"
          /\ ret'.v = given
          /\ Unread(reader') = <<>>
          /\ reader'.currentChar =
                 IF ret.op = "write" THEN writer.m_stream[Len(writer.m_stream)] ELSE EOF]_vars

\* C12 witness: a string holding a quote, a backslash and a byte that is not
\* ASCII was read back, with the quote of a next string behind it
C12_Witness ==
    /\ ret.op = "readString"
    /\ {"\"", "\\", "E9"} \subseteq {given[i] : i \in DOMAIN given}
    /\ ret.v = given
    /\ reader.currentChar = "\""

\* the traversal of an instance that has no property
EmptyObjectCalls(cls) == <<<<"objectBegin", Chars(cls)>>, <<"objectEnd", <<>>>>>>

\* C13: an instance of a type with no property is written as the type name, a
\* space, an opening brace, one newline and the closing brace.
C13_EmptyObject ==
    \A cls \in WriterClasses :
        calls = EmptyObjectCalls(cls) => writer.m_stream = Chars(cls) \o <<" ", "{", "\n", "}">>

\* the nesting level: the objects and collections the traversal is inside of
Depth(sc) == Cardinality({i \in DOMAIN sc : sc[i].kind \in {"object", "collection"}})

Tabs(n) == [i \in 1 .. n |-> "\t"]

\* the traversal of an instance whose one property, count, is 23
CountCalls ==
    <<<<"objectBegin", Chars("TypeName")>>, <<"propertyBegin", Chars("count")>>,
      <<"writeInt", <<"2", "3">>>>, <<"propertyEnd", <<>>>>, <<"objectEnd", <<>>>>>>

DefaultNames ==
    {DefaultTypes[i] : i \in DOMAIN DefaultTypes}
        \cup {PtrName(DefaultTypes[i]) : i \in DOMAIN DefaultTypes}

\* C16: when clear() returns the registry holds the ten default types and
\* their pointer types, each with a live descriptor of its own, and nothing
\* else: no type the application declared is found, and the prefix decorators
\* are "struct" and "class", in this order.
C16_ClearResets ==
    [][ret'.op = "clear" =>
          /\ DOMAIN meta_types' = DefaultNames
          /\ Cardinality(DefaultNames) = 2 * 10
          /\ \A n \in DefaultNames : meta_types'[n] \in DOMAIN metaobjs'
          /\ \A n1, n2 \in DefaultNames : meta_types'[n1] = meta_types'[n2] => n1 = n2
          /\ \A n \in AllTypeNames : n \notin DOMAIN meta_types'
          /\ m_prefixDecorators' = <<"struct", "class">>]_vars

\* C16 witness: clear() has returned after a declaration that bound a pending
\* property to the descriptor of an application type
C16_Witness ==
    /\ ret.op = "clear"
    /\ \E p \in Props : propMetatype[p] # 0
    /\ DOMAIN meta_types = DefaultNames

\* C17: a property no accessor was bound to is not readable and not writable,
\* and so not read-write and not read-only.
C17_UnboundMode ==
    tprop.bound = {} =>
        /\ ~isReadable(tprop)
        /\ ~isWritable(tprop)
        /\ ~isReadWrite(tprop)
        /\ ~isReadOnly(tprop)

\* C17 witness: get() was called on a property that was handed an empty setter
\* functor and nothing else
C17_Witness ==
    /\ ret.op = "get"
    /\ tprop.bound = {}
    /\ tprop.m_dataMember = "NULL"
    /\ ~isReadable(tprop)
    /\ ~isWritable(tprop)

\* C18: while decoding, get is called only on a readable property and set only
\* on a writable one.
C18_ModeConsulted ==
    ret.op = "readProperty" =>
        /\ "get" \in ret.called => isReadable(tprop)
        /\ "set" \in ret.called => isWritable(tprop)

\* C19: every call that scans the stream returns or fails when the text ends
\* before the character it scans for; no call is left scanning.
C19_LoopsStopAtEnd ==
    ret.op \in {"getToken", "skipSpaces", "objectBegin", "objectEnd", "collectionBegin",
                "collectionEnd"}
        => reader.err # "hang"

\* the text a reader has before it: the lookahead and what is unread
Ahead(rd) == IF rd.currentChar = EOF THEN <<>> ELSE <<rd.currentChar>> \o Unread(rd)

\* whitespace or comma
Separator(c) == IsSpace(c) \/ c = ","

\* how many separators t starts with
RECURSIVE LeadingSeparators(_)
LeadingSeparators(t) ==
    IF t # <<>> /\ Separator(Head(t)) THEN 1 + LeadingSeparators(Tail(t)) ELSE 0

\* how many characters that are no separators t starts with
RECURSIVE RunLength(_)
RunLength(t) == IF t # <<>> /\ ~Separator(Head(t)) THEN 1 + RunLength(Tail(t)) ELSE 0

\* the place in t, from i on, of the first quote no backslash escapes; 0 when
\* there is none
RECURSIVE ClosingQuote(_, _)
ClosingQuote(t, i) ==
    IF i > Len(t) THEN 0
    ELSE IF t[i] = "\"" THEN i
    ELSE IF t[i] = "\\" THEN ClosingQuote(t, i + 2)
    ELSE ClosingQuote(t, i + 1)

\* the reader rd is left at place i of the text t: its lookahead is t[i], or
\* EOF past the end of t, and what follows that place is unread
LeftAt(rd, t, i) ==
    /\ rd.currentChar = IF i <= Len(t) THEN t[i] ELSE EOF
    /\ Unread(rd) = SubSeq(t, i + 1, Len(t))

\* C20: getToken skips the separators before it; a token that does not begin
\* with a quote is the longest run of characters that are no separators, and the
\* lookahead is left on the separator that ends it; a token that begins with a
\* quote is the text up to the next quote that no backslash escapes, and the
\* lookahead is left on the character after that quote.
C20_TokenAndLookahead ==
    [][ret'.op = "getToken" =>
          LET t == SubSeq(Ahead(reader), LeadingSeparators(Ahead(reader)) + 1,
                          Len(Ahead(reader)))
              n == RunLength(t)
              q == ClosingQuote(t, 2)
          IN  /\ (t # <<>> /\ t[1] # "\"" /\ n < Len(t)) =>
                     /\ ret'.err = "none"
                     /\ ret'.v = SubSeq(t, 1, n)
                     /\ LeftAt(reader', t, n + 1)
              /\ (t # <<>> /\ t[1] = "\"" /\ q # 0) =>
                     /\ ret'.err = "none"
                     /\ ret'.v = removeEscapeSeq(SubSeq(t, 2, q - 1))
                     /\ LeftAt(reader', t, q + 1)]_vars

\* C20 witness: getToken has returned a quoted text that holds an escaped
\* quote, up to its closing quote
C20_Witness ==
    /\ ret.op = "getToken"
    /\ ret.err = "none"
    /\ ret.v = <<"\"">>
    /\ reader.currentChar = EOF
    /\ Unread(reader) = <<>>

\* the reader has a marker before it: the quoted name $id or $ref, a colon and
\* a quoted id
MarkerAhead(name) ==
    LET text == Quoted(Chars(name)) \o <<":", " ">> \o Quoted(<<"0">>)
    IN  /\ Len(Ahead(reader)) >= Len(text)
        /\ SubSeq(Ahead(reader), 1, Len(text)) = text

\* C21: readProperty on a $id or a $ref marker reads the name, the colon and
\* the id and nothing more, calls no accessor of a property, leaves the
\* instance as it is and returns an empty value.
C21_MarkerReturnsEmpty ==
    [][\A name \in {"$id", "$ref"} :
          (ret'.op = "readProperty" /\ MarkerAhead(name)) =>
              /\ ret'.err = "none"
              /\ LeftAt(reader', Ahead(reader), Len(Chars(name)) + 7 + 1)
              /\ ret'.called = {}
              /\ ret'.instance = SampleInstance[1]
              /\ ret'.v = EmptyAny]_vars

(***************************************************************************)
(* Claims about name normalization                                         *)
(***************************************************************************)
\* the name starts with the decorator
StartsWith(name, decorator) ==
    /\ Len(name) >= Len(Chars(decorator))
    /\ SubSeq(name, 1, Len(Chars(decorator))) = Chars(decorator)

\* the name without the first decorator, in registration order, it starts with
\* and without the separator after it; the name itself when it starts with none
Normalized(decorators, name) ==
    LET starts == {k \in DOMAIN decorators : StartsWith(name, decorators[k])}
    IN  IF starts = {} THEN name
        ELSE SubSeq(name, Len(Chars(decorators[CHOOSE k \in starts : \A j \in starts : k <= j])) + 2,
                    Len(name))

\* C22: demangle removes a registered decoration only where the name starts
\* with it: it returns the name without the first registered prefix it starts
\* with and the separator after it, and a name that starts with no registered
\* prefix unchanged.
C22_LeadingPrefixOnly ==
    ret.op = "demangle" =>
        /\ ret.err = "none"
        /\ ret.v = Normalized(m_prefixDecorators, ret.name)

\* C24: the mode of a property matches the accessors bound to it now: it is
\* writable only with a setter functor that is not empty or a data member, and
\* readable only with a getter functor that is not empty or a data member, and
\* neither get on a readable property nor set on a writable one calls an empty
\* functor.
C24_ModeMatchesAccessors ==
    /\ isWritable(tprop) =>
           /\ tprop.m_setter # "empty" \/ tprop.m_dataMember = "member"
           /\ \A v \in FieldValues :
                  \A r \in internal_set(tprop, inst, v) : r.err # "bad_function_call"
    /\ isReadable(tprop) =>
           /\ tprop.m_getter # "empty" \/ tprop.m_dataMember = "member"
           /\ internal_get(tprop, inst).err # "bad_function_call"

\* the text before the reader once its leading separators are skipped
Skipped(rd) == SubSeq(Ahead(rd), LeadingSeparators(Ahead(rd)) + 1, Len(Ahead(rd)))

\* the place of the first opening brace in t, 0 when there is none
BracePlace(t) ==
    IF \E i \in DOMAIN t : t[i] = "{"
    THEN CHOOSE i \in DOMAIN t : t[i] = "{" /\ \A j \in 1 .. i - 1 : t[j] # "{"
    ELSE 0

\* the type name written before the brace at place b of t
NameBefore(t, b) == Trim(SubSeq(t, 1, b - 1))

ValueTypeNames == UserTypes \cup {DefaultTypes[i] : i \in DOMAIN DefaultTypes}

\* C25: in every registry state each registered type T that is not a pointer
\* type has T* registered too, the descriptor of T refers to exactly the
\* descriptor registered under T*, and no descriptor is registered under two
\* names.
C25_PointerPairing ==
    /\ \A T \in ValueTypeNames \cap DOMAIN meta_types :
           /\ PtrName(T) \in DOMAIN meta_types
           /\ meta_types[T] \in DOMAIN metaobjs
           /\ metaobjs[meta_types[T]].ptr = meta_types[PtrName(T)]
    /\ \A n1, n2 \in DOMAIN meta_types : meta_types[n1] = meta_types[n2] => n1 = n2

\* C25 witness: a declaration has just registered the last user type, so both
\* are registered beside the defaults, by declaring operations that differ
C25_Witness ==
    /\ ret.op \in DeclareOps
    /\ ~ret.found
    /\ UserTypes \subseteq DOMAIN meta_types
    /\ Cardinality(DOMAIN meta_types) = 2 * Cardinality(ValueTypeNames)
    /\ \E T1, T2 \in UserTypes : metaobjs[meta_types[T1]].kind # metaobjs[meta_types[T2]].kind

\* C26: while the calls made to a writer are well nested, indentLevel is the
\* number of objects and collections that are open: never negative, and 0 when
\* every object and collection begun has been ended.
C26_IndentLevelIsDepth ==
    /\ writer.indentLevel = Depth(scopes)
    /\ writer.indentLevel >= 0
    /\ scopes = <<>> => writer.indentLevel = 0

\* C26 witness: an object that held a collection with an element has been
\* ended, and nothing is open
C26_Witness ==
    /\ ret.op = "objectEnd"
    /\ scopes = <<>>
    /\ writer.indentLevel = 0
    /\ \E i, j \in DOMAIN calls :
           /\ i < j
           /\ calls[i][1] = "elementEnd"
           /\ calls[j][1] = "collectionEnd"

\* C27: clear() leaves no property pending: none of the entries enqueued with
\* addPendingProperty before the reset is in the queue after it, so that no
\* declaration made after the reset can bind one of them.
C27_ClearDropsPending ==
    [][ret'.op = "clear" => m_pendingProperties' = <<>>]_vars

====
